---- MODULE Spec2Model ----
(***************************************************************************)
(* The listings application: Listing, Booking and Review rows              *)
(* (listings/models.py) and the three serializers that validate, create    *)
(* and render them (listings/serializers.py).                              *)
(*                                                                         *)
(* Rows carry no id: the id is a fresh uuid4 that no code of the           *)
(* serializers reads, so a table is the bag (multiset) of its rows' other  *)
(* fields.  title, description, location, price_per_night, comment and     *)
(* created_at are read by no validation or derived field and are left out. *)
(***************************************************************************)
EXTENDS Integers, Sequences, FiniteSets, Bags, TLC

\* ------------------------------------------------------------------ bounds
MaxDate == 2          \* dates are the days 1..MaxDate
RatingMargin == 1     \* ratings submitted reach MaxRating + RatingMargin
MaxReviews == 2       \* review rows stored in the checked runs
MaxBookings == 1      \* booking rows stored in the checked runs
MaxAvgReviews == 20   \* reviews of the listing whose average is rendered

\* ------------------------------------------------------- program constants
MinRating == 1
MaxRating == 5
FloatMantissa == 53   \* significant bits of a Python float

\* Absent values: data.get(...) is None, a read-only field is not in the data.
NoDate == 0
NoUser == 0
NoListing == "None"

Users == {1, 2}
ListingIds == {"l1", "l2"}
Dates == 1..MaxDate
\* rating is a PositiveSmallIntegerField: what reaches validate_rating is >= 0.
RatingInputs == 0..(MaxRating + RatingMargin)
EdgeRatings == {MinRating - 1, MinRating, MaxRating, MaxRating + 1}
SomeRatings == {MaxRating, MaxRating + 1}
EdgeDates == {1, 2}
Procs == {"p1", "p2"}

ErrRating == "Rating must be between 1 and 5."
ErrDuplicate == "You have already reviewed this listing."
ErrDates == "End date must be after start date."
ErrDoesNotExist == "Invalid pk - object does not exist."

VARIABLES
    listings,   \* the Listing table: the ids of the stored listings
    reviews,    \* the Review table: a bag of [listing, user, rating]
    bookings,   \* the Booking table: a bag of [listing, user, start_date, end_date]
    inflight,   \* per worker, the review request between is_valid() and save()
    resp        \* the response to the latest request

vars == <<listings, reviews, bookings, inflight, resp>>

\* ----------------------------------------------------------------- helpers
Raise(msg) == [raised |-> TRUE, msg |-> msg]
Return(v) == [raised |-> FALSE, value |-> v]
Errors(result) == IF result.raised THEN {result.msg} ELSE {}

\* A QuerySet: the rows of a table that are among `rows`.
Restrict(table, rows) == [row \in rows |-> table[row]]

\* listing.reviews: the rows of a table that reference listing l.
ReviewsOfListing(table, l) ==
    Restrict(table, {x \in DOMAIN table : x.listing = l})

\* Mutant: on_delete that leaves the referencing rows.
CascadeNothing(table, l) == table

\* on_delete=CASCADE: what is left of a table when listing l is deleted.
Cascade(table, l) ==
    Restrict(table, {x \in DOMAIN table : x.listing # l})

Idle == [pc |-> "idle"]
NoResp == [op |-> "none", status |-> "none"]

\* ------------------------------------------------------------ Listing rows
CreateListing(l) ==
    /\ l \notin listings
    /\ listings' = listings \cup {l}
    /\ resp' = [op |-> "create_listing", status |-> "created", listing_id |-> l]
    /\ UNCHANGED <<reviews, bookings, inflight>>

DeleteListing(l) ==
    /\ l \in listings
    /\ listings' = listings \ {l}
    /\ reviews' = Cascade(reviews, l)
    /\ bookings' = Cascade(bookings, l)
    /\ resp' = [op |-> "delete_listing", status |-> "deleted", listing_id |-> l,
                deleted |-> [reviews |-> BagCardinality(reviews)
                                           - BagCardinality(Cascade(reviews, l)),
                             bookings |-> BagCardinality(bookings)
                                            - BagCardinality(Cascade(bookings, l))]]
    /\ UNCHANGED inflight

\* ------------------------------------------------------- ReviewSerializer
\* Mutant: a listing_id field that looks nothing up.
listing_id_field_any(pk) == Return(pk)

\* listing_id = PrimaryKeyRelatedField(queryset=Listing.objects.all(), source='listing')
listing_id_field(pk) ==
    IF pk \in listings THEN Return(pk) ELSE Raise(ErrDoesNotExist)

\* Mutant: the labels of 5 and 4 exchanged.
get_rating_label_swapped(obj) ==
    CASE obj.rating = 5 -> "Good"
      [] obj.rating = 4 -> "Excellent"
      [] obj.rating = 3 -> "Average"
      [] obj.rating = 2 -> "Poor"
      [] obj.rating = 1 -> "Terrible"
      [] OTHER -> ""

get_rating_label(obj) ==
    CASE obj.rating = 5 -> "Excellent"
      [] obj.rating = 4 -> "Good"
      [] obj.rating = 3 -> "Average"
      [] obj.rating = 2 -> "Poor"
      [] obj.rating = 1 -> "Terrible"
      [] OTHER -> ""

\* Mutant: the lower limit excluded.
validate_rating_exclusive(value) ==
    IF value <= MinRating \/ value > MaxRating
    THEN Raise(ErrRating)
    ELSE Return(value)

validate_rating(value) ==
    IF value < MinRating \/ value > MaxRating
    THEN Raise(ErrRating)
    ELSE Return(value)

\* The writable fields of a review payload, each through its field and its
\* validate_<field>; user is read_only and never enters the data.
ReviewFields(payload) ==
    [listing |-> listing_id_field(payload.listing_id),
     rating |-> validate_rating(payload.rating)]

ReviewExists(user, listing) ==
    \E row \in DOMAIN reviews : row.user = user /\ row.listing = listing

\* Mutant: no look-up of an earlier review.
ReviewValidateUnchecked(user, data) == Return(data)

ReviewValidate(user, data) ==
    IF ReviewExists(user, data.listing)
    THEN Raise(ErrDuplicate)
    ELSE Return(data)

\* is_valid(): the fields, then validate() when no field failed.
ReviewIsValid(user, payload) ==
    LET f == ReviewFields(payload)
        errs == Errors(f.listing) \cup Errors(f.rating)
    IN  IF errs # {}
        THEN [valid |-> FALSE, errors |-> errs]
        ELSE LET v == ReviewValidate(user,
                        [listing |-> f.listing.value, rating |-> f.rating.value,
                         user |-> NoUser])
             IN  IF v.raised
                 THEN [valid |-> FALSE, errors |-> {v.msg}]
                 ELSE [valid |-> TRUE, errors |-> {}, data |-> v.value]

\* create(): validated_data['user'] = request.user, then the row is built.
ReviewCreate(user, validated_data) ==
    [listing |-> validated_data.listing,
     user |-> user,
     rating |-> validated_data.rating]

\* Mutant: a table that is unique in (user, listing) and refuses the row.
ReviewInsertUnique(table, row) ==
    IF \E x \in DOMAIN table : x.user = row.user /\ x.listing = row.listing
    THEN table
    ELSE table (+) SetToBag({row})

\* Review.objects.create: the table has no unique constraint.
ReviewInsert(table, row) == table (+) SetToBag({row})

ReviewRequest(op, user, payload) ==
    [op |-> op, user |-> user, claimed_user |-> payload.user,
     listing_id |-> payload.listing_id, rating |-> payload.rating]

\* One review creation handled without interruption: is_valid(), then save().
CreateReview(user, payload) ==
    LET req == ReviewRequest("create_review", user, payload)
        v == ReviewIsValid(user, payload)
    IN  /\ v.valid => BagCardinality(reviews) < MaxReviews
        /\ IF v.valid
           THEN LET row == ReviewCreate(user, v.data)
                IN  /\ reviews' = ReviewInsert(reviews, row)
                    /\ resp' = req @@
                               [status |-> "created", errors |-> {}, rows |-> {row}]
           ELSE /\ reviews' = reviews
                /\ resp' = req @@ [status |-> "error", errors |-> v.errors, rows |-> {}]
        /\ UNCHANGED <<listings, bookings, inflight>>

\* ReviewSerializer(obj).data for any Review object, stored or not.
SerializeReview(obj) ==
    /\ resp' = [op |-> "read_review", status |-> "ok", user |-> obj.user,
                listing |-> obj.listing, rating |-> obj.rating,
                rating_label |-> get_rating_label(obj)]
    /\ UNCHANGED <<listings, reviews, bookings, inflight>>

\* ------------------------------------------------------ BookingSerializer
\* Mutant: equal dates rejected too.
BookingValidateStrict(data) ==
    LET start == data.start_date
        end == data.end_date
    IN  IF start # NoDate /\ end # NoDate /\ end <= start
        THEN Raise(ErrDates)
        ELSE Return(data)

BookingValidate(data) ==
    LET start == data.start_date
        end == data.end_date
    IN  IF start # NoDate /\ end # NoDate /\ end < start
        THEN Raise(ErrDates)
        ELSE Return(data)

BookingIsValid(payload) ==
    LET f == listing_id_field(payload.listing_id)
    IN  IF f.raised
        THEN [valid |-> FALSE, errors |-> {f.msg}]
        ELSE LET v == BookingValidate(
                        [listing |-> f.value, start_date |-> payload.start_date,
                         end_date |-> payload.end_date, user |-> NoUser])
             IN  IF v.raised
                 THEN [valid |-> FALSE, errors |-> {v.msg}]
                 ELSE [valid |-> TRUE, errors |-> {}, data |-> v.value]

\* Mutant: create() that leaves the user of the data.
BookingCreateKeepsUser(user, validated_data) ==
    [listing |-> validated_data.listing,
     user |-> validated_data.user,
     start_date |-> validated_data.start_date,
     end_date |-> validated_data.end_date]

BookingCreate(user, validated_data) ==
    [listing |-> validated_data.listing,
     user |-> user,
     start_date |-> validated_data.start_date,
     end_date |-> validated_data.end_date]

BookingInsert(table, row) == table (+) SetToBag({row})

BookingRequest(op, user, payload) ==
    [op |-> op, user |-> user, claimed_user |-> payload.user,
     listing_id |-> payload.listing_id,
     start_date |-> payload.start_date, end_date |-> payload.end_date]

CreateBooking(user, payload) ==
    LET req == BookingRequest("create_booking", user, payload)
        v == BookingIsValid(payload)
    IN  /\ v.valid => BagCardinality(bookings) < MaxBookings
        /\ IF v.valid
           THEN LET row == BookingCreate(user, v.data)
                IN  /\ bookings' = BookingInsert(bookings, row)
                    /\ resp' = req @@
                               [status |-> "created", errors |-> {}, rows |-> {row}]
           ELSE /\ bookings' = bookings
                /\ resp' = req @@ [status |-> "error", errors |-> v.errors, rows |-> {}]
        /\ UNCHANGED <<listings, reviews, inflight>>

\* A booking update (partial=True): the fields the payload names are validated,
\* validate() sees only them, and update() sets them on the instance; update()
\* is not overridden, so the row's user stays.
BookingUpdateIsValid(payload) ==
    LET f == IF payload.listing_id = NoListing
             THEN Return(NoListing)
             ELSE listing_id_field(payload.listing_id)
    IN  IF f.raised
        THEN [valid |-> FALSE, errors |-> {f.msg}]
        ELSE LET v == BookingValidate(
                        [listing |-> f.value, start_date |-> payload.start_date,
                         end_date |-> payload.end_date, user |-> NoUser])
             IN  IF v.raised
                 THEN [valid |-> FALSE, errors |-> {v.msg}]
                 ELSE [valid |-> TRUE, errors |-> {}, data |-> v.value]

BookingUpdate(instance, validated_data) ==
    [listing |-> IF validated_data.listing = NoListing
                 THEN instance.listing ELSE validated_data.listing,
     user |-> instance.user,
     start_date |-> IF validated_data.start_date = NoDate
                    THEN instance.start_date ELSE validated_data.start_date,
     end_date |-> IF validated_data.end_date = NoDate
                  THEN instance.end_date ELSE validated_data.end_date]

UpdateBooking(user, instance, payload) ==
    LET req == BookingRequest("update_booking", user, payload)
        v == BookingUpdateIsValid(payload)
    IN  /\ instance \in DOMAIN bookings
        /\ IF v.valid
           THEN LET row == BookingUpdate(instance, v.data)
                IN  /\ bookings' = (bookings (-) SetToBag({instance})) (+) SetToBag({row})
                    /\ resp' = req @@
                               [status |-> "updated", errors |-> {}, rows |-> {row}]
           ELSE /\ bookings' = bookings
                /\ resp' = req @@ [status |-> "error", errors |-> v.errors, rows |-> {}]
        /\ UNCHANGED <<listings, reviews, inflight>>

\* -------------------------------------------------------- review updates
\* ReviewSerializer(instance, data=payload, partial=True): validate() is the
\* one of creation and runs with the requester and the data of the payload.
ReviewUpdateIsValid(user, payload) ==
    LET fl == IF payload.listing_id = NoListing
              THEN Return(NoListing)
              ELSE listing_id_field(payload.listing_id)
        fr == validate_rating(payload.rating)
        errs == Errors(fl) \cup Errors(fr)
    IN  IF errs # {}
        THEN [valid |-> FALSE, errors |-> errs]
        ELSE LET v == ReviewValidate(user,
                        [listing |-> fl.value, rating |-> fr.value, user |-> NoUser])
             IN  IF v.raised
                 THEN [valid |-> FALSE, errors |-> {v.msg}]
                 ELSE [valid |-> TRUE, errors |-> {}, data |-> v.value]

ReviewUpdate(instance, validated_data) ==
    [listing |-> IF validated_data.listing = NoListing
                 THEN instance.listing ELSE validated_data.listing,
     user |-> instance.user,
     rating |-> validated_data.rating]

UpdateReview(user, instance, payload) ==
    LET req == ReviewRequest("update_review", user, payload) @@ [instance |-> instance]
        v == ReviewUpdateIsValid(user, payload)
    IN  /\ instance \in DOMAIN reviews
        /\ IF v.valid
           THEN LET row == ReviewUpdate(instance, v.data)
                IN  /\ reviews' = (reviews (-) SetToBag({instance})) (+) SetToBag({row})
                    /\ resp' = req @@
                               [status |-> "updated", errors |-> {}, rows |-> {row}]
           ELSE /\ reviews' = reviews
                /\ resp' = req @@ [status |-> "error", errors |-> v.errors, rows |-> {}]
        /\ UNCHANGED <<listings, bookings, inflight>>

\* ----------------------------------------------- interleaved review creation
\* A worker runs is_valid() and save() as two steps; other workers' steps may
\* fall between them.
Validated == {p \in Procs : inflight[p].pc = "validated"}

BeginReview(p, user, payload) ==
    LET req == ReviewRequest("create_review", user, payload)
        v == ReviewIsValid(user, payload)
    IN  /\ inflight[p].pc = "idle"
        /\ v.valid => BagCardinality(reviews) + Cardinality(Validated) < MaxReviews
        /\ IF v.valid
           THEN /\ inflight' = [inflight EXCEPT ![p] =
                        [pc |-> "validated", user |-> user, data |-> v.data, req |-> req]]
                /\ resp' = resp
           ELSE /\ inflight' = inflight
                /\ resp' = req @@ [status |-> "error", errors |-> v.errors, rows |-> {}]
        /\ UNCHANGED <<listings, reviews, bookings>>

FinishReview(p) ==
    /\ inflight[p].pc = "validated"
    /\ LET row == ReviewCreate(inflight[p].user, inflight[p].data)
       IN  /\ reviews' = ReviewInsert(reviews, row)
           /\ resp' = inflight[p].req @@
                      [status |-> "created", errors |-> {}, rows |-> {row}]
    /\ inflight' = [inflight EXCEPT ![p] = Idle]
    /\ UNCHANGED <<listings, bookings>>

\* ------------------------------------------------------ ListingSerializer
RECURSIVE RatingSum(_, _)
RatingSum(table, rows) ==
    IF rows = {}
    THEN 0
    ELSE LET row == CHOOSE x \in rows : TRUE
         IN  row.rating * table[row] + RatingSum(table, rows \ {row})

\* A float's bits after the point are kept in limbs: three of 13 bits and a
\* last one that takes the rest.
LimbWidths(fbits) == <<13, 13, 13, fbits - 39>>

RECURSIVE BitLength(_)
BitLength(i) == IF i = 0 THEN 0 ELSE 1 + BitLength(i \div 2)

\* The zero bits after the point that precede the first one bit of r/n, 0 < r < n.
RECURSIVE LeadingZeros(_, _)
LeadingZeros(r, n) == IF 2 * r >= n THEN 0 ELSE 1 + LeadingZeros(2 * r, n)

\* The bits after the point that a float of integer part ip and remainder r/n
\* keeps: FloatMantissa significant bits in all.
FractionBits(ip, r, n) ==
    IF ip > 0 THEN FloatMantissa - BitLength(ip)
    ELSE IF r > 0 THEN FloatMantissa + LeadingZeros(r, n)
    ELSE FloatMantissa

\* The binary expansion of r/n (0 <= r < n) after the point, cut after the
\* limbs of the given widths, with the remainder left over.
RECURSIVE DivLimbs(_, _, _)
DivLimbs(r, n, widths) ==
    IF widths = <<>>
    THEN [limbs |-> <<>>, rem |-> r]
    ELSE LET base == 2 ^ Head(widths)
             rest == DivLimbs((r * base) % n, n, Tail(widths))
         IN  [limbs |-> <<(r * base) \div n>> \o rest.limbs, rem |-> rest.rem]

\* limbs + one unit in the last place.
RECURSIVE IncLimbs(_, _)
IncLimbs(limbs, widths) ==
    IF limbs = <<>>
    THEN [limbs |-> <<>>, carry |-> 1]
    ELSE LET k == Len(limbs)
             i == IncLimbs(SubSeq(limbs, 1, k - 1), SubSeq(widths, 1, k - 1))
         IN  IF limbs[k] + 1 < 2 ^ widths[k]
             THEN [limbs |-> [limbs EXCEPT ![k] = @ + 1], carry |-> 0]
             ELSE [limbs |-> i.limbs \o <<0>>, carry |-> i.carry]

\* s / n of two ints: the float nearest to the quotient (ties to even), as its
\* integer part and the limbs after the point.
FloatDiv(s, n) ==
    LET ip == s \div n
        widths == LimbWidths(FractionBits(ip, s % n, n))
        d == DivLimbs(s % n, n, widths)
        up == \/ 2 * d.rem > n
              \/ 2 * d.rem = n /\ d.limbs[Len(d.limbs)] % 2 = 1
        i == IncLimbs(d.limbs, widths)
    IN  IF up
        THEN [int |-> ip + i.carry, frac |-> i.limbs, widths |-> widths]
        ELSE [int |-> ip, frac |-> d.limbs, widths |-> widths]

\* 10 * 0.limbs, as its integer part (carry) and the limbs after the point.
RECURSIVE TimesTen(_, _)
TimesTen(limbs, widths) ==
    IF limbs = <<>>
    THEN [limbs |-> <<>>, carry |-> 0]
    ELSE LET t == TimesTen(Tail(limbs), Tail(widths))
             v == 10 * Head(limbs) + t.carry
         IN  [limbs |-> <<v % (2 ^ Head(widths))>> \o t.limbs,
              carry |-> v \div (2 ^ Head(widths))]

\* Decimal(avg).quantize(Decimal('0.1'), rounding=ROUND_HALF_UP): Decimal(avg)
\* is the float's exact value; the result is a number of tenths, one more
\* when the bit after the point of 10 * avg is set.
QuantizeTenths(avg) ==
    LET t == TimesTen(avg.frac, avg.widths)
        half == IF 2 * t.limbs[1] >= 2 ^ avg.widths[1] THEN 1 ELSE 0
    IN  10 * avg.int + t.carry + half

\* The float of a one-decimal Decimal is the float nearest to tenths/10, which
\* the number of tenths names.
get_average_rating(obj) ==
    LET rows == ReviewsOfListing(reviews, obj)
    IN  IF DOMAIN rows = {}
        THEN [none |-> TRUE]
        ELSE LET avg == FloatDiv(RatingSum(rows, DOMAIN rows), BagCardinality(rows))
             IN  [none |-> FALSE, tenths |-> QuantizeTenths(avg)]

reviews_count(obj) ==
    BagCardinality(ReviewsOfListing(reviews, obj))

SerializeListing(l) ==
    /\ l \in listings
    /\ resp' = [op |-> "read_listing", status |-> "ok", listing_id |-> l,
                reviews_count |-> reviews_count(l),
                average_rating |-> get_average_rating(l)]
    /\ UNCHANGED <<listings, reviews, bookings, inflight>>

\* ------------------------------------------------------------------ inputs
ReviewPayloads(ratings, claimed) ==
    [listing_id : ListingIds, rating : ratings, user : claimed]

ReviewPatches(ratings) ==
    [listing_id : ListingIds \cup {NoListing}, rating : ratings, user : {NoUser}]

BookingPayloads(dates, claimed) ==
    [listing_id : ListingIds, start_date : dates, end_date : dates,
     user : claimed]

BookingPatches(dates) ==
    [listing_id : ListingIds \cup {NoListing}, start_date : dates \cup {NoDate},
     end_date : dates \cup {NoDate}, user : {NoUser}]

ReviewObjects ==
    [listing : ListingIds, user : Users, rating : RatingInputs]

\* ---------------------------------------------------------- specifications
Init ==
    /\ listings = {}
    /\ reviews = EmptyBag
    /\ bookings = EmptyBag
    /\ inflight = [p \in Procs |-> Idle]
    /\ resp = NoResp

\* Listings, bookings and reviews, one request at a time.
Next ==
    \/ \E l \in ListingIds : CreateListing(l)
    \/ \E l \in ListingIds : DeleteListing(l)
    \/ \E u \in Users, p \in ReviewPayloads(SomeRatings, Users \cup {NoUser}) :
          CreateReview(u, p)
    \/ \E u \in Users, p \in BookingPayloads(EdgeDates, Users \cup {NoUser}) :
          CreateBooking(u, p)

Spec == Init /\ [][Next]_vars

\* Review writes and reads, one request at a time.
NextReview ==
    \/ \E l \in ListingIds : CreateListing(l)
    \/ \E l \in ListingIds : DeleteListing(l)
    \/ \E u \in Users, p \in ReviewPayloads(RatingInputs, {NoUser}) : CreateReview(u, p)
    \/ \E obj \in ReviewObjects : SerializeReview(obj)

SpecReview == Init /\ [][NextReview]_vars

\* Booking writes, one request at a time.
NextBooking ==
    \/ \E l \in ListingIds : CreateListing(l)
    \/ \E l \in ListingIds : DeleteListing(l)
    \/ \E u \in Users, p \in BookingPayloads(Dates, {NoUser}) : CreateBooking(u, p)
    \/ \E u \in Users, row \in DOMAIN bookings, p \in BookingPatches(Dates) :
          UpdateBooking(u, row, p)

SpecBooking == Init /\ [][NextBooking]_vars

\* Review creations and updates, one request at a time.
NextUpdate ==
    \/ \E l \in ListingIds : CreateListing(l)
    \/ \E u \in Users, p \in ReviewPayloads(EdgeRatings, {NoUser}) : CreateReview(u, p)
    \/ \E u \in Users, row \in DOMAIN reviews, p \in ReviewPatches(EdgeRatings) :
          UpdateReview(u, row, p)

SpecUpdate == Init /\ [][NextUpdate]_vars

\* Review creations of several workers, interleaved.
NextConc ==
    \/ \E l \in ListingIds : CreateListing(l)
    \/ \E p \in Procs, u \in Users, d \in ReviewPayloads(EdgeRatings, {NoUser}) :
          BeginReview(p, u, d)
    \/ \E p \in Procs : FinishReview(p)

SpecConc == Init /\ [][NextConc]_vars

\* The tables after up to MaxAvgReviews users have each reviewed listing l1
\* once, and nobody l2; the listings are rendered.  The sum of the ratings
\* does not depend on who gave which, so the users take them in sorted order.
RECURSIVE Total(_, _)
Total(c, r) == IF r > MaxRating THEN 0 ELSE c[r] + Total(c, r + 1)

RatingCounts ==
    {c \in [MinRating..MaxRating -> 0..MaxAvgReviews] :
        Total(c, MinRating) <= MaxAvgReviews}

\* The rating of the i-th reviewer when the ratings, counted by c, are sorted.
RECURSIVE RatingAt(_, _, _)
RatingAt(c, i, r) == IF i <= c[r] THEN r ELSE RatingAt(c, i - c[r], r + 1)

ReviewsOf(l, c) ==
    SetToBag({[listing |-> l, user |-> i, rating |-> RatingAt(c, i, MinRating)] :
                i \in 1..Total(c, MinRating)})

InitAvg ==
    /\ listings = ListingIds
    /\ \E c \in RatingCounts : reviews = ReviewsOf("l1", c)
    /\ bookings = EmptyBag
    /\ inflight = [p \in Procs |-> Idle]
    /\ resp = NoResp

NextAvg == \E l \in listings : SerializeListing(l)

SpecAvg == InitAvg /\ [][NextAvg]_vars

\* ------------------------------------------------------------------ claims
PairRows(table, u, l) ==
    Restrict(table, {x \in DOMAIN table : x.user = u /\ x.listing = l})

PairCount(u, l) == BagCardinality(PairRows(reviews, u, l))

PairCountAfter(u, l) == BagCardinality(PairRows(reviews', u, l))

OneReviewPerPair == \A u \in Users, l \in ListingIds : PairCount(u, l) <= 1

\* A step that handles a review creation by a user who has a review of the
\* listing on file.
SecondReview ==
    /\ resp'.op = "create_review"
    /\ PairCount(resp'.user, resp'.listing_id) >= 1

\* C1, as stated: handled one at a time, review creations leave at most one
\* Review per (user, listing), and a creation for a pair that has a Review on
\* file fails with "You have already reviewed this listing." and adds no row.
C1_AsStated ==
    [][SecondReview => /\ resp'.status = "error"
                       /\ ErrDuplicate \in resp'.errors
                       /\ reviews' = reviews]_vars

\* C1, amended: handled one at a time, review creations leave at most one
\* Review per (user, listing); a creation for a pair that has a Review on file
\* fails and adds no row, with "You have already reviewed this listing." when
\* its rating is in 1..5 and with the rating's error alone when it is not.
C1_OneReviewPerPair ==
    /\ []OneReviewPerPair
    /\ [][SecondReview =>
            /\ resp'.status = "error"
            /\ reviews' = reviews
            /\ resp'.errors = IF resp'.rating >= 1 /\ resp'.rating <= 5
                              THEN {ErrDuplicate} ELSE {ErrRating}]_vars

C1_Witness ==
    /\ resp.op = "create_review"
    /\ resp.errors = {ErrDuplicate}
    /\ PairCount(resp.user, resp.listing_id) = 1
    /\ BagCardinality(reviews) = 2

\* C2: a worker that passed validation stores its Review whatever was stored
\* since, so two interleaved creations of one user for one listing can both
\* pass validation and leave two Reviews of the pair.
C2_ValidatedIsStored ==
    [][\A p \in Procs :
          inflight[p].pc = "validated" /\ inflight'[p].pc = "idle" =>
              /\ PairCountAfter(inflight[p].user, inflight[p].data.listing)
                    = PairCount(inflight[p].user, inflight[p].data.listing) + 1
              /\ resp'.status = "created"]_vars

C2_Witness ==
    \E u \in Users, l \in ListingIds :
        /\ PairCount(u, l) = 2
        /\ resp.op = "create_review" /\ resp.status = "created"
        /\ resp.user = u /\ resp.listing_id = l

\* C3: validate_rating accepts a rating, unchanged, exactly when it is in
\* 1..5 and fails with "Rating must be between 1 and 5." otherwise, storing
\* nothing; every stored Review has a rating in 1..5.
C3_RatingRange ==
    /\ \A row \in DOMAIN reviews : row.rating >= 1 /\ row.rating <= 5
    /\ resp.op = "create_review" =>
          /\ (ErrRating \in resp.errors) <=> ~(resp.rating >= 1 /\ resp.rating <= 5)
          /\ ErrRating \in resp.errors => resp.status = "error" /\ resp.rows = {}
          /\ \A row \in resp.rows : row.rating = resp.rating

C3_Witness ==
    /\ resp.op = "create_review"
    /\ resp.rating = 6
    /\ resp.errors = {ErrRating}
    /\ \E row \in DOMAIN reviews : row.rating = 5

\* The mean s/n rounded half up to one decimal, in tenths.
RoundHalfUpTenths(s, n) == (20 * s + n) \div (2 * n)

RatingsOf(l) == Restrict(reviews, {x \in DOMAIN reviews : x.listing = l})

\* C4, as stated: a listing without reviews has average_rating None and
\* reviews_count 0; with n >= 1 reviews its average_rating is the mean of the
\* ratings rounded half up to one decimal.
C4_AsStated ==
    resp.op = "read_listing" =>
        LET rows == RatingsOf(resp.listing_id)
            n == BagCardinality(rows)
        IN  /\ resp.reviews_count = n
            /\ n = 0 => resp.average_rating.none
            /\ n >= 1 => /\ ~resp.average_rating.none
                         /\ resp.average_rating.tenths
                               = RoundHalfUpTenths(RatingSum(rows, DOMAIN rows), n)

C6_UserIsRequester ==
    resp.op \in {"create_review", "create_booking"} /\ resp.status = "created" =>
        /\ resp.rows # {}
        /\ \A row \in resp.rows :
              /\ row.user = resp.user
              /\ row \in DOMAIN (IF resp.op = "create_review" THEN reviews ELSE bookings)

C6_Witness ==
    /\ resp.op = "create_booking"
    /\ resp.status = "created"
    /\ resp.claimed_user \in Users \ {resp.user}
    /\ \E row \in DOMAIN reviews : row.user = resp.user

Copies(table, row) == IF row \in DOMAIN table THEN table[row] ELSE 0

NoOrphans ==
    \A row \in DOMAIN reviews \cup DOMAIN bookings : row.listing \in listings

\* C7: deleting a Listing removes the Bookings and Reviews that reference it
\* and leaves those of the other listings as they were; every stored Booking
\* and Review references a stored Listing.
C7_CascadeDelete ==
    /\ []NoOrphans
    /\ [][resp'.op = "delete_listing" /\ listings' # listings =>
            /\ \A row \in DOMAIN reviews \cup DOMAIN reviews' :
                  Copies(reviews', row) =
                      IF row.listing = resp'.listing_id THEN 0 ELSE Copies(reviews, row)
            /\ \A row \in DOMAIN bookings \cup DOMAIN bookings' :
                  Copies(bookings', row) =
                      IF row.listing = resp'.listing_id THEN 0 ELSE Copies(bookings, row)]_vars

C7_Witness ==
    /\ resp.op = "delete_listing"
    /\ resp.deleted.reviews >= 1
    /\ resp.deleted.bookings >= 1
    /\ reviews # EmptyBag

Rows == BagCardinality(reviews) + BagCardinality(bookings)

\* C8: a Review or Booking write for a listing_id that is no stored Listing
\* fails with a validation error; a write that fails validation leaves the
\* three tables as they were, and one that succeeds adds exactly one row.
C8_FailedWriteChangesNothing ==
    [][resp'.op \in {"create_review", "create_booking"} =>
          /\ resp'.listing_id \notin listings =>
                resp'.status = "error" /\ ErrDoesNotExist \in resp'.errors
          /\ resp'.status \in {"error", "created"}
          /\ resp'.status = "error" =>
                /\ resp'.errors # {}
                /\ listings' = listings /\ reviews' = reviews /\ bookings' = bookings
          /\ resp'.status = "created" =>
                /\ listings' = listings
                /\ \E row \in resp'.rows :
                      IF resp'.op = "create_review"
                      THEN /\ reviews' = reviews (+) SetToBag({row})
                           /\ bookings' = bookings
                      ELSE /\ bookings' = bookings (+) SetToBag({row})
                           /\ reviews' = reviews]_vars

C8_Witness ==
    /\ resp.op = "create_review"
    /\ resp.listing_id \notin listings
    /\ resp.errors = {ErrDoesNotExist}
    /\ Rows >= 2

RatingLabels ==
    [r \in RatingInputs |->
        IF r = 5 THEN "Excellent"
        ELSE IF r = 4 THEN "Good"
        ELSE IF r = 3 THEN "Average"
        ELSE IF r = 2 THEN "Poor"
        ELSE IF r = 1 THEN "Terrible"
        ELSE ""]

\* C9: rating_label is "Excellent", "Good", "Average", "Poor", "Terrible" for
\* the ratings 5, 4, 3, 2, 1 and the empty string for any other rating; the
\* label of a stored Review is never empty.
C9_RatingLabel ==
    /\ resp.op = "read_review" => resp.rating_label = RatingLabels[resp.rating]
    /\ \A row \in DOMAIN reviews : get_rating_label(row) # ""

C9_Witness ==
    /\ resp.op = "read_review"
    /\ resp.rating = 0
    /\ resp.rating_label = ""
    /\ reviews # EmptyBag

\* C10, as stated: when the author of a stored Review updates it, naming the
\* listing it is about, the duplicate check does not reject the write.
C10_AsStated ==
    LET own == /\ resp.op = "update_review"
               /\ resp.user = resp.instance.user
               /\ resp.listing_id = resp.instance.listing
    IN  own => ErrDuplicate \notin resp.errors

====
